---- MODULE Spec2Model ----
(***************************************************************************)
(* Model of contigcounter.py: a single-pass scan of a BLAST text report    *)
(* that tallies the top hit of every query block, followed by the report   *)
(* and the summary statistics.                                             *)
(*                                                                         *)
(* Strings are sequences of one-character strings, so that the regular     *)
(* expressions, split(), strip() and the numeric conversions of the        *)
(* script are computed character by character.                             *)
(***************************************************************************)
EXTENDS Integers, Sequences, FiniteSets, TLC

(* Bound on the number of lines read from the BLAST file. *)
MaxLines == 7

(* Python's None: a value that is no string of characters. *)
None == <<"None">>

(***************************************************************************)
(* Characters and the str methods the script uses.                         *)
(***************************************************************************)
UpperCase == <<"A","B","C","D","E","F","G","H","I","J","K","L","M",
               "N","O","P","Q","R","S","T","U","V","W","X","Y","Z">>

LowerCase == <<"a","b","c","d","e","f","g","h","i","j","k","l","m",
               "n","o","p","q","r","s","t","u","v","w","x","y","z">>

Digits == <<"0","1","2","3","4","5","6","7","8","9">>

IsSpace(c) == c \in {" ", "\n", "\t", "\r"}

IsDigit(c) == \E i \in 1..10 : Digits[i] = c

DigitVal(c) == (CHOOSE i \in 1..10 : Digits[i] = c) - 1

(* Case folding done by re.IGNORECASE. *)
Lower(c) ==
    IF \E i \in 1..26 : UpperCase[i] = c
    THEN LowerCase[CHOOSE i \in 1..26 : UpperCase[i] = c]
    ELSE c

(* str.rstrip(chars): drop the longest suffix made of characters of chars. *)
RStripChars(s, chars) ==
    LET keep == {i \in 1..Len(s) : s[i] \notin chars}
        last == IF keep = {} THEN 0 ELSE CHOOSE i \in keep : \A j \in keep : j <= i
    IN  SubSeq(s, 1, last)

(* str.lstrip(chars). *)
LStripChars(s, chars) ==
    LET keep  == {i \in 1..Len(s) : s[i] \notin chars}
        first == IF keep = {} THEN Len(s) + 1 ELSE CHOOSE i \in keep : \A j \in keep : i <= j
    IN  SubSeq(s, first, Len(s))

WhiteSpace == {" ", "\n", "\t", "\r"}

RStrip(s) == RStripChars(s, WhiteSpace)

Strip(s) == LStripChars(RStripChars(s, WhiteSpace), WhiteSpace)

(* s has the literal lit at position i (1-based). *)
HasAt(s, lit, i) ==
    /\ i + Len(lit) - 1 <= Len(s)
    /\ \A k \in 1..Len(lit) : s[i + k - 1] = lit[k]

(* Positions where a whitespace-delimited token starts, and where the     *)
(* token starting at i ends.                                               *)
TokenStarts(s) ==
    {i \in 1..Len(s) : ~IsSpace(s[i]) /\ (i = 1 \/ IsSpace(s[i - 1]))}

TokenEnd(s, i) ==
    CHOOSE j \in i..Len(s) :
        /\ \A k \in i..j : ~IsSpace(s[k])
        /\ (j = Len(s) \/ IsSpace(s[j + 1]))

(* Start of the k-th token (1-based). *)
NthStart(s, k) ==
    CHOOSE i \in TokenStarts(s) : Cardinality({j \in TokenStarts(s) : j < i}) = k - 1

(* str.split(): the whitespace-delimited tokens, in order. *)
Split(s) ==
    [k \in 1..Cardinality(TokenStarts(s)) |->
        SubSeq(s, NthStart(s, k), TokenEnd(s, NthStart(s, k)))]

(* str.split(','): the pieces between commas, empty pieces included. *)
SplitComma(s) ==
    LET commas == {i \in 1..Len(s) : s[i] = ","}
        n      == Cardinality(commas) + 1
        cut(k) == IF k = 0 THEN 0
                  ELSE IF k = n THEN Len(s) + 1
                  ELSE CHOOSE i \in commas : Cardinality({j \in commas : j < i}) = k - 1
    IN  [k \in 1..n |-> SubSeq(s, cut(k - 1) + 1, cut(k) - 1)]

(***************************************************************************)
(* int(), float() and numeric().                                           *)
(***************************************************************************)
RECURSIVE DigitsVal(_)
DigitsVal(ds) ==
    IF ds = <<>> THEN 0
    ELSE 10 * DigitsVal(SubSeq(ds, 1, Len(ds) - 1)) + DigitVal(ds[Len(ds)])

AllDigits(s) == \A i \in 1..Len(s) : IsDigit(s[i])

HasSign(s) == Len(s) > 0 /\ s[1] \in {"+", "-"}

Unsigned(s) == IF HasSign(s) THEN Tail(s) ELSE s

SignOf(s) == IF Len(s) > 0 /\ s[1] = "-" THEN -1 ELSE 1

(* int(s) succeeds: optional surrounding whitespace, optional sign, digits. *)
IsIntStr(s) ==
    LET u == Unsigned(Strip(s)) IN Len(u) > 0 /\ AllDigits(u)

IntVal(s) == SignOf(Strip(s)) * DigitsVal(Unsigned(Strip(s)))

LowerStr(s) == [i \in 1..Len(s) |-> Lower(s[i])]

FloatWords == { <<"i","n","f">>, <<"n","a","n">>,
                <<"i","n","f","i","n","i","t","y">> }

(* The decimal part of a float literal: digits with at most one point and *)
(* at least one digit.                                                     *)
IsDecimal(m) ==
    /\ Cardinality({i \in 1..Len(m) : m[i] = "."}) <= 1
    /\ \A i \in 1..Len(m) : IsDigit(m[i]) \/ m[i] = "."
    /\ \E i \in 1..Len(m) : IsDigit(m[i])

ExpAt(u) == {i \in 1..Len(u) : u[i] \in {"e", "E"}}

(* float(s) succeeds. *)
IsFloatStr(s) ==
    LET u == Unsigned(Strip(s))
    IN  \/ LowerStr(u) \in FloatWords
        \/ /\ ExpAt(u) = {}
           /\ IsDecimal(u)
        \/ /\ Cardinality(ExpAt(u)) = 1
           /\ LET e == CHOOSE i \in ExpAt(u) : TRUE
              IN  /\ IsDecimal(SubSeq(u, 1, e - 1))
                  /\ LET x == Unsigned(SubSeq(u, e + 1, Len(u)))
                     IN  Len(x) > 0 /\ AllDigits(x)

(* The value of a float literal as mant * 10^exp; inf and nan by name.     *)
FloatVal(s) ==
    LET t    == Strip(s)
        u    == Unsigned(t)
        e    == IF ExpAt(u) = {} THEN Len(u) + 1 ELSE CHOOSE i \in ExpAt(u) : TRUE
        m    == SubSeq(u, 1, e - 1)
        x    == SubSeq(u, e + 1, Len(u))
        dot  == {i \in 1..Len(m) : m[i] = "."}
        frac == IF dot = {} THEN 0 ELSE Len(m) - (CHOOSE i \in dot : TRUE)
        ds   == SelectSeq(m, IsDigit)
    IN  IF LowerStr(u) \in FloatWords
        THEN [kind |-> IF LowerStr(u) = <<"n","a","n">> THEN "nan" ELSE "inf",
              mant |-> SignOf(t), exp |-> 0]
        ELSE [kind |-> "float", mant |-> SignOf(t) * DigitsVal(ds),
              exp  |-> (IF x = <<>> THEN 0 ELSE SignOf(x) * DigitsVal(Unsigned(x))) - frac]

(* A conversion that gives 0 for what is no number. *)
numeric_Lenient(numstr) ==
    IF IsIntStr(numstr)
    THEN [kind |-> "int", mant |-> IntVal(numstr), exp |-> 0]
    ELSE IF IsFloatStr(numstr) THEN FloatVal(numstr)
    ELSE [kind |-> "int", mant |-> 0, exp |-> 0]

(* numeric(numstr): int first, float on ValueError; the ValueError of     *)
(* float() propagates (kind "ValueError").                                *)
numeric(numstr) ==
    IF IsIntStr(numstr)
    THEN [kind |-> "int", mant |-> IntVal(numstr), exp |-> 0]
    ELSE IF IsFloatStr(numstr) THEN FloatVal(numstr)
    ELSE [kind |-> "ValueError", mant |-> 0, exp |-> 0]

(***************************************************************************)
(* HitResultObject and the two dictionaries.                               *)
(***************************************************************************)
HitResultObject(seqName, score, evalue) ==
    [Name |-> seqName, hits |-> 1, scores |-> <<score>>, evalues |-> <<evalue>>]

(* addTally that forgets the e-value. *)
addTally_NoEvalue(obj, score, evalue) ==
    [obj EXCEPT !.hits   = @ + 1,
                !.scores = Append(@, score)]

addTally(obj, score, evalue) ==
    [obj EXCEPT !.hits    = @ + 1,
                !.scores  = Append(@, score),
                !.evalues = Append(@, evalue)]

EmptyDict == [k \in {} |-> 0]

(* A tally that replaces the entry of a key already present. *)
Tally_Overwrite(d, key, score, evalue) ==
    [k \in DOMAIN d \cup {key} |->
        IF k # key THEN d[k] ELSE HitResultObject(key, score, evalue)]

(* if key in d: d[key].addTally(...) else: d[key] = HitResultObject(...)   *)
Tally(d, key, score, evalue) ==
    [k \in DOMAIN d \cup {key} |->
        IF k # key THEN d[k]
        ELSE IF key \in DOMAIN d THEN addTally(d[key], score, evalue)
        ELSE HitResultObject(key, score, evalue)]

RECURSIVE SumOver(_, _)
SumOver(d, ks) ==
    IF ks = {} THEN 0
    ELSE LET k == CHOOSE x \in ks : TRUE IN d[k].hits + SumOver(d, ks \ {k})

(* sum([x[1].getTally() for x in d.items()]) *)
TotalHits(d) == SumOver(d, DOMAIN d)

(***************************************************************************)
(* The line shapes tested by the scan loop.                                *)
(***************************************************************************)
BLASTN == <<"B","L","A","S","T","N">>

QueryPrefix == <<"Q","u","e","r","y","="," ">>

HitSectionText ==
    <<"S","e","q","u","e","n","c","e","s"," ",
      "p","r","o","d","u","c","i","n","g"," ",
      "s","i","g","n","i","f","i","c","a","n","t"," ",
      "a","l","i","g","n","m","e","n","t","s",":">>

(* re.match("^\s*$", line) *)
MatchBlank(ln) == \A i \in 1..Len(ln) : IsSpace(ln[i])

(* re.match("^\s*BLASTN", line) *)
MatchHeader(ln) == HasAt(LStripChars(ln, WhiteSpace), BLASTN, 1)

(* re.match("^\s*Query= (?P<queryName>.+)$", line): '.' is any character  *)
(* but a newline.                                                          *)
MatchQuery(ln) ==
    LET l == LStripChars(ln, WhiteSpace)
    IN  /\ HasAt(l, QueryPrefix, 1)
        /\ Len(l) > Len(QueryPrefix)
        /\ \A i \in (Len(QueryPrefix) + 1)..Len(l) : l[i] # "\n"

(* line.find("Sequences producing significant alignments:") == 0 *)
MatchHitSection(ln) == HasAt(ln, HitSectionText, 1)

(* re.match("^\s*(?P<seqstring>.+)\s+(?P<score>\S+)\s+(?P<evalue>\S+)$"):  *)
(* on a line without trailing whitespace, evalue is the last token, score  *)
(* the token before it, and the greedy seqstring is all that precedes the  *)
(* last whitespace character before score; it needs one character of its   *)
(* own (whitespace will do, \s* giving it back), so score starts at        *)
(* position 3 or later.                                                    *)
HitMatch(ln) ==
    LET n == Cardinality(TokenStarts(ln))
    IN  /\ ln = RStrip(ln)
        /\ n >= 2
        /\ NthStart(ln, n - 1) >= 3
        /\ \A i \in 1..(NthStart(ln, n - 1) - 2) : ln[i] # "\n"

(* The groups of a hit match, seqstring being what the greedy .+ takes     *)
(* after the leading \s*.                                                  *)
HitGroups(ln) ==
    LET n   == Cardinality(TokenStarts(ln))
        sc  == NthStart(ln, n - 1)
        pre == SubSeq(ln, 1, sc - 2)
    IN  [seqstring |-> IF MatchBlank(pre) THEN SubSeq(pre, Len(pre), Len(pre))
                       ELSE LStripChars(pre, WhiteSpace),
         score     |-> SubSeq(ln, sc, TokenEnd(ln, sc)),
         evalue    |-> SubSeq(ln, NthStart(ln, n), Len(ln))]

(***************************************************************************)
(* get_aggregation_key.                                                    *)
(***************************************************************************)
(* blastDescArray[int(keyField) - 1] raises: int() fails, or the index is  *)
(* outside -n..n-1 for a list of n tokens.                                 *)
KeyFieldRaises(blastDescArray, keyField) ==
    \/ ~IsIntStr(keyField)
    \/ LET i == IntVal(keyField) - 1
           n == Len(blastDescArray)
       IN  i >= n \/ i < -n

(* blastDescArray[int(keyField) - 1], a negative index counting from the   *)
(* end of the list.                                                        *)
KeyFieldToken(blastDescArray, keyField) ==
    LET i == IntVal(keyField) - 1
    IN  IF i >= 0 THEN blastDescArray[i + 1]
        ELSE blastDescArray[Len(blastDescArray) + i + 1]

RECURSIVE BlastKey_Reversed(_, _)
(* A key built by putting every token in front of the key so far. *)
BlastKey_Reversed(blastDescArray, keyArray) ==
    IF keyArray = <<>> THEN <<>>
    ELSE <<" ">> \o KeyFieldToken(blastDescArray, keyArray[Len(keyArray)])
         \o BlastKey_Reversed(blastDescArray, SubSeq(keyArray, 1, Len(keyArray) - 1))

RECURSIVE BlastKey(_, _)
(* blastKey after the loop: " " + token for every key field, in order.     *)
BlastKey(blastDescArray, keyArray) ==
    IF keyArray = <<>> THEN <<>>
    ELSE BlastKey(blastDescArray, SubSeq(keyArray, 1, Len(keyArray) - 1))
         \o <<" ">> \o KeyFieldToken(blastDescArray, keyArray[Len(keyArray)])

(* get_aggregation_key(blast_desc) with args.key_fields = key_fields:      *)
(* raised says that GetBlastResultKeyError was raised, key is the value    *)
(* returned otherwise.                                                     *)
get_aggregation_key(blast_desc, key_fields) ==
    IF key_fields = None
    THEN [raised |-> FALSE, key |-> blast_desc]
    ELSE LET keyArray       == SplitComma(key_fields)
             blastDescArray == Split(blast_desc)
         IN  IF \E f \in 1..Len(keyArray) : KeyFieldRaises(blastDescArray, keyArray[f])
             THEN [raised |-> TRUE, key |-> <<>>]
             ELSE [raised |-> FALSE, key |-> Strip(BlastKey(blastDescArray, keyArray))]

(* re.match("\d+(,\d+)*", key_fields): a match at the start of the string, *)
(* which need not reach its end.                                           *)
KeyFieldsMatch(key_fields) == Len(key_fields) >= 1 /\ IsDigit(key_fields[1])

(***************************************************************************)
(* The exclusion expression.                                               *)
(***************************************************************************)
(* The alternatives of exclusionRegex, one "(" re.escape(line) ")" for     *)
(* every line of the exclusion file with its trailing line separators      *)
(* removed; the expression is the empty string when the file has no line.  *)
ExclusionRegex(excludeLines) ==
    [i \in 1..Len(excludeLines) |-> RStripChars(excludeLines[i], {"\n"})]

(* The alternative alt matches s at position i, ignoring case. *)
AltMatchesAt(alt, s, i) ==
    /\ i + Len(alt) - 1 <= Len(s)
    /\ \A k \in 1..Len(alt) : Lower(s[i + k - 1]) = Lower(alt[k])

(* A search that prefers the first alternative occurring anywhere in s to  *)
(* an alternative occurring further left.                                  *)
Search_FirstAlternative(regex, s) ==
    LET occurs(a) == \E i \in 1..(Len(s) + 1) : AltMatchesAt(regex[a], s, i)
        alts      == {a \in 1..Len(regex) : occurs(a)}
    IN  IF alts = {} THEN [found |-> FALSE, group0 |-> <<>>]
        ELSE LET a == CHOOSE x \in alts : \A y \in alts : x <= y
                 i == CHOOSE x \in 1..(Len(s) + 1) :
                        /\ AltMatchesAt(regex[a], s, x)
                        /\ \A y \in 1..(x - 1) : ~AltMatchesAt(regex[a], s, y)
             IN  [found |-> TRUE, group0 |-> SubSeq(s, i, i + Len(regex[a]) - 1)]

(* re.search(regex, s, re.IGNORECASE): the leftmost position where an      *)
(* alternative matches, and there the first alternative that does;         *)
(* group0 is the text of s that was matched.                               *)
Search(regex, s) ==
    LET hits == {i \in 1..(Len(s) + 1) :
                    \E a \in 1..Len(regex) : AltMatchesAt(regex[a], s, i)}
    IN  IF hits = {} THEN [found |-> FALSE, group0 |-> <<>>]
        ELSE LET i == CHOOSE x \in hits : \A y \in hits : x <= y
                 a == CHOOSE x \in 1..Len(regex) :
                        /\ AltMatchesAt(regex[x], s, i)
                        /\ \A y \in 1..(x - 1) : ~AltMatchesAt(regex[y], s, i)
             IN  [found |-> TRUE, group0 |-> SubSeq(s, i, i + Len(regex[a]) - 1)]

(***************************************************************************)
(* The inputs of a run: command line, exclusion file and BLAST file.       *)
(***************************************************************************)
NL == <<"\n">>

SP == <<" ">>

Mito == <<"M","i","t","o">>

Dna == <<"d","n","a">>

DescMito == Mito \o SP \o Dna \o SP \o <<"p","o","l">>

DescCox == <<"c","o","x">> \o SP \o <<"r","n","a">> \o SP \o <<"p","o","l">>

DescCoxX == <<"c","o","x">> \o SP \o <<"r","n","a">> \o SP \o <<"x">>

(* Lines the BLAST file may contain, each with its line terminator. *)
BlastLines ==
    { NL,
      BLASTN \o SP \o <<"2",".","2">> \o NL,
      QueryPrefix \o <<"q","1">> \o NL,
      HitSectionText \o NL,
      <<"L","e","n","g","t","h","=","5">> \o NL,
      DescMito \o SP \o <<"1","2">> \o SP \o <<"1","e","-","5">> \o NL,
      DescCox \o SP \o SP \o <<"7">> \o SP \o <<"0",".","5">> \o NL,
      DescCoxX \o SP \o <<"7">> \o SP \o <<"2">> \o NL,
      DescCox \o SP \o <<"x","x">> \o SP \o <<"5">> \o NL,
      SP \o SP \o <<"3">> \o SP \o <<"4">> \o NL }

(* Values of --key-fields. *)
KeyFieldArgs ==
    { None, <<"2",",","1">>, <<"9">>, <<"0">>, <<"1","x">>, <<"x">> }

(* Contents of the exclusion file, as its lines. *)
ExcludeFiles ==
    { <<>>,
      << <<"m","i","t","o">> \o NL >>,
      << Dna \o NL, <<"m","i","t","o">> \o NL >>,
      << <<"m","i","t","o">> \o NL, NL >> }

Args ==
    [debug : BOOLEAN, key_fields : KeyFieldArgs, exclude : {None, <<"f">>}]

Env ==
    [blast_ok : BOOLEAN, exclude_ok : BOOLEAN, exclude_lines : ExcludeFiles]

(***************************************************************************)
(* State.                                                                  *)
(***************************************************************************)
VARIABLES
    args,            \* the parsed command line
    env,             \* which files can be opened, and the exclusion file
    pc,              \* position in the script
    opened,          \* files opened so far
    foundHeader, newQuery, getNextHit,
    results, excludedResults,
    lineCount, warningCount,
    exclusionRegex,  \* the alternatives of the expression; none when it is
                     \* None or the empty string, which the script treats alike
    line,            \* the line being processed, stripped
    hitMatch,        \* the last match of the hit-line pattern, or none
    seqString,       \* the description of the last hit line matched
    out,             \* what has been printed, by kind
    exitStatus,      \* Running, then the exit status of the process
    exception,       \* the uncaught exception that ended the run, if any
    stats,           \* the summary statistics
    event,           \* what the scan loop did with the last line
    hitsEmitted,     \* hit records produced so far
    blockHits        \* hit lines taken since the last line of Query= shape

vars == <<args, env, pc, opened, foundHeader, newQuery, getNextHit, results,
          excludedResults, lineCount, warningCount, exclusionRegex, line,
          hitMatch, seqString, out, exitStatus, exception, stats, event, hitsEmitted, blockHits>>

Running == -1

(* hitMatch when the hit-line pattern did not match (None). *)
NoHitMatch == [matched |-> FALSE, seqstring |-> <<>>, score |-> <<>>, evalue |-> <<>>]

NoStats == [totalHits |-> 0, n |-> 0, divisor |-> 0, varNum |-> 0, varDen |-> 0]

Init ==
    /\ args \in Args
    /\ env \in Env
    /\ args.exclude = None => (env.exclude_ok /\ env.exclude_lines = <<>>)
    /\ pc = "open_blast"
    /\ opened = {}
    /\ foundHeader = FALSE
    /\ newQuery = FALSE
    /\ getNextHit = FALSE
    /\ results = EmptyDict
    /\ excludedResults = EmptyDict
    /\ lineCount = 0
    /\ warningCount = 0
    /\ exclusionRegex = <<>>
    /\ line = <<>>
    /\ hitMatch = NoHitMatch
    /\ seqString = <<>>
    /\ out = {"banner"}
    /\ exitStatus = Running
    /\ exception = "none"
    /\ stats = NoStats
    /\ event = "none"
    /\ hitsEmitted = 0
    /\ blockHits = 0

(***************************************************************************)
(* Start-up: lines 127-186.                                                *)
(***************************************************************************)
scanVars == <<foundHeader, newQuery, getNextHit, results, excludedResults,
              lineCount, warningCount, line, hitMatch, seqString, event,
              hitsEmitted, blockHits>>

(* sys.exit(status), or an uncaught exception (status 1). *)
Exit(status, exc, printed) ==
    /\ pc' = "done"
    /\ exitStatus' = status
    /\ exception' = exc
    /\ out' = out \cup printed

(* blastFile = open(blastFilename, "r") *)
OpenBlastFile ==
    /\ pc = "open_blast"
    /\ IF env.blast_ok
       THEN /\ opened' = opened \cup {"blast"}
            /\ pc' = "validate"
            /\ out' = out \cup (IF args.debug THEN {"debug: args"} ELSE {})
            /\ UNCHANGED <<exitStatus, exception>>
       ELSE /\ Exit(1, "none", {"unable to open file"}
                               \cup (IF args.debug THEN {"debug: args"} ELSE {}))
            /\ UNCHANGED opened
    /\ UNCHANGED <<args, env, exclusionRegex, stats>>
    /\ UNCHANGED scanVars

(* Validate key fields parameter, if provided. *)
ValidateKeyFields ==
    /\ pc = "validate"
    /\ IF args.key_fields # None /\ args.key_fields # <<>>
          /\ ~KeyFieldsMatch(args.key_fields)
       THEN Exit(1, "none", {"invalid key field parameter"})
       ELSE /\ pc' = "load_exclude"
            /\ UNCHANGED <<exitStatus, exception, out>>
    /\ UNCHANGED <<args, env, opened, exclusionRegex, stats>>
    /\ UNCHANGED scanVars

(* Load exclusion expressions. *)
LoadExclusions ==
    /\ pc = "load_exclude"
    /\ IF args.exclude = None
       THEN /\ pc' = "scan"
            /\ out' = out \cup {"processing"}
                          \cup (IF args.debug THEN {"debug: exclusion regex"} ELSE {})
            /\ UNCHANGED <<opened, exclusionRegex, exitStatus, exception>>
       ELSE IF env.exclude_ok
       THEN /\ opened' = opened \cup {"exclude"}
            /\ exclusionRegex' = ExclusionRegex(env.exclude_lines)
            /\ pc' = "scan"
            /\ out' = out \cup {"loading exclusion file", "processing"}
                          \cup (IF args.debug THEN {"debug: exclusion regex"} ELSE {})
            /\ UNCHANGED <<exitStatus, exception>>
       ELSE /\ Exit(1, "none", {"loading exclusion file", "unable to open exclusion file"})
            /\ UNCHANGED <<opened, exclusionRegex>>
    /\ UNCHANGED <<args, env, stats>>
    /\ UNCHANGED scanVars

(***************************************************************************)
(* The scan loop: lines 192-248, one action per line read.                 *)
(***************************************************************************)
Debug(what) == IF args.debug THEN {what} ELSE {}

(* Hit lines taken in the block of ln: none yet if ln has Query= shape.    *)
BlockBase(ln) == IF MatchQuery(ln) THEN 0 ELSE blockHits

(* Flags that keep waiting for a hit line after one was matched. *)
HitFlags_KeepHit == [newQuery |-> TRUE, getNextHit |-> TRUE]

(* Flags of which only newQuery is cleared after a hit line was matched. *)
HitFlags_OnlyQuery == [newQuery |-> FALSE, getNextHit |-> TRUE]

(* The flags after a hit line was matched. *)
HitFlags == [newQuery |-> FALSE, getNextHit |-> FALSE]

(* A skipped line that makes the scan await the next query again. *)
SkipLine_Resets(ln, what) ==
    /\ event' = what
    /\ blockHits' = BlockBase(ln)
    /\ newQuery' = FALSE
    /\ getNextHit' = FALSE
    /\ UNCHANGED <<foundHeader, results, excludedResults, warningCount, seqString,
                   hitsEmitted, out, pc, exitStatus, exception>>

(* A line that no branch acts on. *)
SkipLine(ln, what) ==
    /\ event' = what
    /\ blockHits' = BlockBase(ln)
    /\ UNCHANGED <<foundHeader, newQuery, getNextHit, results, excludedResults,
                   warningCount, seqString, hitsEmitted, out, pc, exitStatus,
                   exception>>

(* A header branch that starts a query block as well. *)
HeaderBranch_AlsoQuery(ln) ==
    /\ foundHeader' = TRUE
    /\ newQuery' = TRUE
    /\ out' = out \cup Debug("debug: found file header")
    /\ event' = "header"
    /\ blockHits' = BlockBase(ln)
    /\ UNCHANGED <<getNextHit, results, excludedResults, warningCount,
                   hitMatch, seqString, hitsEmitted, pc, exitStatus, exception>>

(* elif not foundHeader and re.match("^\s*BLASTN",line) *)
HeaderBranch(ln) ==
    /\ foundHeader' = TRUE
    /\ out' = out \cup Debug("debug: found file header")
    /\ event' = "header"
    /\ blockHits' = BlockBase(ln)
    /\ UNCHANGED <<newQuery, getNextHit, results, excludedResults, warningCount,
                   hitMatch, seqString, hitsEmitted, pc, exitStatus, exception>>

(* elif foundHeader and not newQuery *)
QueryBranch(ln) ==
    IF MatchQuery(ln)
    THEN /\ newQuery' = TRUE
         /\ out' = out \cup Debug("debug: at query")
         /\ event' = "query"
         /\ blockHits' = BlockBase(ln)
         /\ UNCHANGED <<foundHeader, getNextHit, results, excludedResults,
                        warningCount, hitMatch, seqString, hitsEmitted, pc,
                        exitStatus, exception>>
    ELSE SkipLine(ln, "ignored") /\ UNCHANGED hitMatch

(* elif foundHeader and newQuery and not getNextHit *)
HitSectionBranch(ln) ==
    IF MatchHitSection(ln)
    THEN /\ getNextHit' = TRUE
         /\ out' = out \cup Debug("debug: tabulating top hit")
         /\ event' = "section"
         /\ blockHits' = BlockBase(ln)
         /\ UNCHANGED <<foundHeader, newQuery, results, excludedResults,
                        warningCount, hitMatch, seqString, hitsEmitted, pc,
                        exitStatus, exception>>
    ELSE SkipLine(ln, "ignored") /\ UNCHANGED hitMatch

(* An exclusion without its 'continue': the hit goes on to results too. *)
ExcludeHit_FallThrough(desc, hitScore, hitEvalue) ==
    LET k      == get_aggregation_key(desc, args.key_fields)
        seqKey == IF k.raised THEN desc ELSE k.key
    IN  /\ excludedResults' =
               Tally(excludedResults, Search(exclusionRegex, desc).group0,
                     hitScore, hitEvalue)
        /\ warningCount' = IF k.raised THEN warningCount + 1 ELSE warningCount
        /\ results' = Tally(results, seqKey, hitScore, hitEvalue)
        /\ out' = out \cup Debug("debug: match hit") \cup Debug("debug: excluding hit")
        /\ event' = "excluded"

(* The hit is diverted to excludedResults under excludeMatch.group(0). *)
ExcludeHit(desc, hitScore, hitEvalue) ==
    /\ excludedResults' =
           Tally(excludedResults, Search(exclusionRegex, desc).group0,
                 hitScore, hitEvalue)
    /\ out' = out \cup Debug("debug: match hit") \cup Debug("debug: excluding hit")
    /\ event' = "excluded"
    /\ UNCHANGED <<results, warningCount>>

(* A handler of GetBlastResultKeyError that does not count the warning. *)
TallyHit_NoWarning(desc, hitScore, hitEvalue) ==
    LET k      == get_aggregation_key(desc, args.key_fields)
        seqKey == IF k.raised THEN desc ELSE k.key
    IN  /\ warningCount' = warningCount
        /\ results' = Tally(results, seqKey, hitScore, hitEvalue)
        /\ out' = out \cup Debug("debug: match hit") \cup Debug("debug: tally added")
                      \cup (IF k.raised
                            THEN {"warning: failed to get key field"}
                                 \cup Debug("debug: exception details")
                            ELSE {})
        /\ event' = "tallied"
        /\ UNCHANGED excludedResults

(* The hit is tallied in results under its key, or under the description   *)
(* when GetBlastResultKeyError is caught.                                  *)
TallyHit(desc, hitScore, hitEvalue) ==
    LET k      == get_aggregation_key(desc, args.key_fields)
        seqKey == IF k.raised THEN desc ELSE k.key
    IN  /\ warningCount' = IF k.raised THEN warningCount + 1 ELSE warningCount
        /\ results' = Tally(results, seqKey, hitScore, hitEvalue)
        /\ out' = out \cup Debug("debug: match hit") \cup Debug("debug: tally added")
                      \cup (IF k.raised
                            THEN {"warning: failed to get key field"}
                                 \cup Debug("debug: exception details")
                            ELSE {})
        /\ event' = "tallied"
        /\ UNCHANGED excludedResults

(* elif foundHeader and newQuery and getNextHit *)
HitLineBranch(ln) ==
    IF HitMatch(ln)
    THEN LET desc      == Strip(HitGroups(ln).seqstring)
             hitScore  == numeric(Strip(HitGroups(ln).score))
             hitEvalue == numeric(Strip(HitGroups(ln).evalue))
         IN  /\ newQuery' = HitFlags.newQuery
             /\ getNextHit' = HitFlags.getNextHit
             /\ hitMatch' = [matched   |-> TRUE,
                              seqstring |-> HitGroups(ln).seqstring,
                              score     |-> HitGroups(ln).score,
                              evalue    |-> HitGroups(ln).evalue]
             /\ seqString' = desc
             /\ blockHits' = BlockBase(ln) + 1
             /\ UNCHANGED foundHeader
             /\ IF "ValueError" \in {hitScore.kind, hitEvalue.kind}
                THEN /\ Exit(1, "ValueError", Debug("debug: match hit"))
                     /\ event' = "valueerror"
                     /\ UNCHANGED <<results, excludedResults, warningCount, hitsEmitted>>
                ELSE /\ hitsEmitted' = hitsEmitted + 1
                     /\ UNCHANGED <<pc, exitStatus, exception>>
                     /\ IF exclusionRegex # <<>> /\ Search(exclusionRegex, desc).found
                        THEN ExcludeHit(desc, hitScore, hitEvalue)
                        ELSE TallyHit(desc, hitScore, hitEvalue)
    ELSE SkipLine(ln, "ignored") /\ hitMatch' = NoHitMatch

(* for line in blastFile: the whole body of the loop for one line. *)
ScanLine ==
    /\ pc = "scan"
    /\ lineCount < MaxLines
    /\ \E raw \in BlastLines :
         LET ln == RStrip(raw)
         IN  /\ lineCount' = lineCount + 1
             /\ line' = ln
             /\ IF MatchBlank(ln) THEN SkipLine(ln, "blank") /\ UNCHANGED hitMatch
                ELSE IF ~foundHeader /\ MatchHeader(ln) THEN HeaderBranch(ln)
                ELSE IF foundHeader /\ ~newQuery THEN QueryBranch(ln)
                ELSE IF foundHeader /\ newQuery /\ ~getNextHit THEN HitSectionBranch(ln)
                ELSE IF foundHeader /\ newQuery /\ getNextHit THEN HitLineBranch(ln)
                ELSE SkipLine(ln, "ignored") /\ UNCHANGED hitMatch
    /\ UNCHANGED <<args, env, opened, exclusionRegex, stats>>

(* End of the file: blastFile.close(). *)
EndOfInput ==
    /\ pc = "scan"
    /\ pc' = "report"
    /\ UNCHANGED <<args, env, opened, exclusionRegex, stats, out, exitStatus, exception>>
    /\ UNCHANGED scanVars

(***************************************************************************)
(* Report and statistics: lines 254-293.                                   *)
(***************************************************************************)
RECURSIVE SumSqDev(_, _, _, _)
(* sum of (n*hits - total)^2 over the keys ks: n^2 times the sum of the    *)
(* squared deviations from avgHits = total / n.                            *)
SumSqDev(d, ks, n, total) ==
    IF ks = {} THEN 0
    ELSE LET k == CHOOSE x \in ks : TRUE
         IN  (n * d[k].hits - total) * (n * d[k].hits - total)
             + SumSqDev(d, ks \ {k}, n, total)

(* The divisor of the sample standard deviation, whatever n is. *)
StddevDivisor_Sample(n) == n - 1

(* The divisor under the square root of stddevHits. *)
StddevDivisor(n) == IF n > 1 THEN n - 1 ELSE n

(* totalHits, and stddevHits^2 as the fraction varNum / varDen. *)
Statistics(d) ==
    LET n == Cardinality(DOMAIN d)
    IN  [totalHits |-> TotalHits(d),
         n         |-> n,
         divisor   |-> StddevDivisor(n),
         varNum    |-> SumSqDev(d, DOMAIN d, n, TotalHits(d)),
         varDen    |-> n * n * StddevDivisor(n)]

(* A report that does not look at foundHeader. *)
Report_NoHeaderCheck ==
    /\ pc = "report"
    /\ pc' = "summary"
    /\ out' = out \cup {"final report"}
    /\ UNCHANGED <<exitStatus, exception>>
    /\ UNCHANGED <<args, env, opened, exclusionRegex, stats>>
    /\ UNCHANGED scanVars

(* if not foundHeader: warning and sys.exit(1); else the table of results. *)
Report ==
    /\ pc = "report"
    /\ IF ~foundHeader
       THEN Exit(1, "none", {"warning: not a BLAST result file"})
       ELSE /\ pc' = "summary"
            /\ out' = out \cup {"final report"}
            /\ UNCHANGED <<exitStatus, exception>>
    /\ UNCHANGED <<args, env, opened, exclusionRegex, stats>>
    /\ UNCHANGED scanVars

(* totalHits, avgHits = float(totalHits) / len(results), stddevHits and    *)
(* the totals printed after them.                                          *)
Summary ==
    /\ pc = "summary"
    /\ IF Cardinality(DOMAIN results) = 0
       THEN /\ Exit(1, "ZeroDivisionError", {})
            /\ UNCHANGED stats
       ELSE /\ stats' = Statistics(results)
            /\ pc' = "exclusion_report"
            /\ out' = out \cup {"summary statistics"}
            /\ UNCHANGED <<exitStatus, exception>>
    /\ UNCHANGED <<args, env, opened, exclusionRegex>>
    /\ UNCHANGED scanVars

(* if excludedResults: the exclusion report; then the script ends. *)
ExclusionReport ==
    /\ pc = "exclusion_report"
    /\ Exit(0, "none", IF DOMAIN excludedResults # {} THEN {"exclusion report"} ELSE {})
    /\ UNCHANGED <<args, env, opened, exclusionRegex, stats>>
    /\ UNCHANGED scanVars

Next ==
    \/ OpenBlastFile
    \/ ValidateKeyFields
    \/ LoadExclusions
    \/ ScanLine
    \/ EndOfInput
    \/ Report
    \/ Summary
    \/ ExclusionReport

Spec == Init /\ [][Next]_vars

(***************************************************************************)
(* Properties.                                                             *)
(***************************************************************************)
(* The step read a line and produced a hit record from it. *)
EmitsHit == lineCount' = lineCount + 1 /\ hitsEmitted' = hitsEmitted + 1

(* The scan is over and the end of the input was reached. *)
ReachedEndOfInput == pc \in {"report", "summary", "exclusion_report", "done"}
                     /\ "processing" \in out
                     /\ exception # "ValueError"

(* C1: unless the run died of a fatal error, the hit counts of results and *)
(* of excludedResults add up to the number of hit records produced by the  *)
(* scan, in particular when the scan is over.                              *)
C1_TalliesSumToHits ==
    exception # "ValueError" =>
        TotalHits(results) + TotalHits(excludedResults) = hitsEmitted

C1_Witness ==
    /\ ReachedEndOfInput
    /\ DOMAIN excludedResults # {}
    /\ DOMAIN results # {}
    /\ hitsEmitted = 2

(* C2: at most one hit line is taken per query block: a step that takes a  *)
(* hit line starts with a query marker and a hit-section marker consumed   *)
(* (newQuery and getNextHit), ends awaiting the next query, and is the     *)
(* only one since the last line of Query= shape; newQuery is set only by   *)
(* consuming a query marker and getNextHit only by consuming, after it, a  *)
(* hit-section marker.                                                     *)
C2_OneHitPerQueryBlock ==
    [][ /\ (lineCount' = lineCount + 1 /\ event' \in {"excluded", "tallied", "valueerror"})
           => /\ newQuery /\ getNextHit
              /\ ~newQuery' /\ ~getNextHit'
              /\ blockHits' = 1
        /\ (~newQuery /\ newQuery')
           => event' = "query" /\ MatchQuery(line') /\ ~getNextHit'
        /\ (~getNextHit /\ getNextHit')
           => event' = "section" /\ MatchHitSection(line') /\ newQuery
      ]_vars

C2_Witness ==
    /\ hitsEmitted >= 2
    /\ blockHits = 1
    /\ event \in {"excluded", "tallied"}

(* C3: a run that found the BLASTN header and reached the end of the input *)
(* with no included hit ends successfully: final report, summary           *)
(* statistics, exit status zero.                                           *)
C3_ZeroHitsSucceeds ==
    (pc = "done" /\ ReachedEndOfInput /\ foundHeader /\ DOMAIN results = {})
        => /\ exitStatus = 0
           /\ exception = "none"
           /\ {"final report", "summary statistics"} \subseteq out

(* C4: a run that found the header and reached the end of the input with   *)
(* at least one excluded hit has printed the exclusion report when it      *)
(* ends, whatever results holds.                                           *)
C4_ExclusionReportPrinted ==
    (pc = "done" /\ ReachedEndOfInput /\ foundHeader /\ DOMAIN excludedResults # {})
        => "exclusion report" \in out

(* C5: an excluded hit is tallied under the exclusion term as the          *)
(* exclusion file supplies it: every key of excludedResults is a line of   *)
(* that file, without its line terminator.                                 *)
C5_ExcludedUnderSuppliedTerm ==
    \A k \in DOMAIN excludedResults :
        \E i \in 1..Len(env.exclude_lines) :
            k = RStripChars(env.exclude_lines[i], {"\n"})

(* C6: every hit record changes exactly one mapping: either the total of   *)
(* excludedResults grows by one while results and warningCount stay, or    *)
(* the total of results grows by one while excludedResults stays.          *)
C6_ExactlyOneMapping ==
    [][ EmitsHit =>
          \/ /\ TotalHits(excludedResults') = TotalHits(excludedResults) + 1
             /\ results' = results
             /\ warningCount' = warningCount
          \/ /\ TotalHits(results') = TotalHits(results) + 1
             /\ excludedResults' = excludedResults
      ]_vars

C6_Witness ==
    /\ event = "excluded"
    /\ DOMAIN results # {}
    /\ DOMAIN excludedResults # {}

(* C7: while no line has matched the header both mappings are empty and no *)
(* hit record is produced, whatever the lines look like; a header line is  *)
(* recognised wherever it stands in the stream; and a run that reaches the *)
(* end of the input without header warns that the file is no BLAST result  *)
(* file, prints no report and exits with status 1.                         *)
C7_NoHeaderNoTally ==
    /\ [](~foundHeader =>
            /\ DOMAIN results = {} /\ DOMAIN excludedResults = {}
            /\ hitsEmitted = 0 /\ warningCount = 0)
    /\ []((pc = "done" /\ "processing" \in out /\ ~foundHeader) =>
            /\ "warning: not a BLAST result file" \in out
            /\ out \cap {"final report", "summary statistics", "exclusion report"} = {}
            /\ exitStatus = 1)
    /\ [][ (lineCount' = lineCount + 1 /\ ~foundHeader) =>
             (foundHeader' <=> (~MatchBlank(line') /\ MatchHeader(line'))) ]_vars

C7_Witness ==
    /\ pc = "done"
    /\ ~foundHeader
    /\ lineCount >= 3
    /\ HitMatch(line)
    /\ exitStatus = 1

(* A --key-fields value made of one or more groups of digits separated by *)
(* single commas.                                                          *)
DigitGroups(key_fields) ==
    \A f \in 1..Len(SplitComma(key_fields)) :
        Len(SplitComma(key_fields)[f]) > 0 /\ AllDigits(SplitComma(key_fields)[f])

(* C8: with a --key-fields value that is not made of digit groups          *)
(* separated by single commas no file is ever opened and no line is ever   *)
(* processed, and the run ends with a non-zero status.                     *)
C8_BadKeyFieldsFatal ==
    (args.key_fields # None /\ ~DigitGroups(args.key_fields))
        => /\ opened = {}
           /\ lineCount = 0
           /\ pc \in {"open_blast", "validate", "done"}
           /\ (pc = "done" => exitStatus = 1)

(* The hit record of this step is not diverted and its key cannot be       *)
(* derived.                                                                *)
KeyFailsOnIncludedHit ==
    /\ EmitsHit
    /\ ~(exclusionRegex # <<>> /\ Search(exclusionRegex, seqString').found)
    /\ get_aggregation_key(seqString', args.key_fields).raised

(* C9: when the key of an included hit cannot be derived, the hit is       *)
(* tallied in results under its whole trimmed description (that entry      *)
(* counts one more hit, the others are untouched), warningCount grows by   *)
(* exactly one, the scan awaits the next query and goes on: the run is not *)
(* ended.                                                                  *)
C9_KeyFailureFallsBack ==
    [][ KeyFailsOnIncludedHit =>
          LET d == seqString'
          IN  /\ DOMAIN results' = DOMAIN results \cup {d}
              /\ results'[d].hits = (IF d \in DOMAIN results THEN results[d].hits ELSE 0) + 1
              /\ \A k \in DOMAIN results \ {d} : results'[k] = results[k]
              /\ excludedResults' = excludedResults
              /\ warningCount' = warningCount + 1
              /\ ~newQuery' /\ ~getNextHit'
              /\ pc' = "scan" /\ exitStatus' = Running /\ exception' = "none"
      ]_vars

C9_Witness ==
    /\ args.key_fields = <<"9">>
    /\ warningCount = 2
    /\ DescMito \in DOMAIN results
    /\ pc = "done"
    /\ exitStatus = 0

(* C10: every entry of results and of excludedResults counts as many hits  *)
(* as it holds scores and as it holds e-values, and at least one.          *)
C10_CountMatchesLists ==
    /\ \A k \in DOMAIN results :
          /\ results[k].hits = Len(results[k].scores)
          /\ results[k].hits = Len(results[k].evalues)
          /\ results[k].hits >= 1
    /\ \A k \in DOMAIN excludedResults :
          /\ excludedResults[k].hits = Len(excludedResults[k].scores)
          /\ excludedResults[k].hits = Len(excludedResults[k].evalues)
          /\ excludedResults[k].hits >= 1

C10_Witness ==
    \/ \E k \in DOMAIN results : results[k].hits = 2 /\ Len(results[k].evalues) = 2
    \/ \E k \in DOMAIN excludedResults : excludedResults[k].hits = 2

(* The step tallied its hit in results under the key k. *)
TalliedUnder(k) ==
    /\ k \in DOMAIN results'
    /\ results'[k].hits = (IF k \in DOMAIN results THEN results[k].hits ELSE 0) + 1
    /\ \A j \in DOMAIN results' \ {k} : j \in DOMAIN results /\ results'[j] = results[j]

(* The field numbers of a --key-fields value made of digit groups. *)
FieldNumbers(key_fields) ==
    [f \in 1..Len(SplitComma(key_fields)) |-> DigitsVal(SplitComma(key_fields)[f])]

RECURSIVE JoinFields(_, _)
(* The tokens at the positions nums, in that order, one space between.     *)
JoinFields(tokens, nums) ==
    IF Len(nums) = 1 THEN tokens[nums[1]]
    ELSE tokens[nums[1]] \o <<" ">> \o JoinFields(tokens, Tail(nums))

(* Every field number of key_fields is a position of a token of d. *)
FieldsInRange(d, key_fields) ==
    /\ key_fields # None
    /\ DigitGroups(key_fields)
    /\ \A f \in 1..Len(FieldNumbers(key_fields)) :
          FieldNumbers(key_fields)[f] \in 1..Len(Split(d))

(* C11: an included hit whose description d was captured by the hit-line   *)
(* pattern is tallied under d.strip() when no key fields are configured,   *)
(* and, when all configured field numbers lie in 1..(number of tokens of   *)
(* d), under the tokens of d at those positions, in the order of the list, *)
(* joined by single spaces.                                                *)
C11_KeyIsSelectedFields ==
    [][ (EmitsHit /\ results' # results) =>
          /\ args.key_fields = None => TalliedUnder(Strip(hitMatch'.seqstring))
          /\ FieldsInRange(hitMatch'.seqstring, args.key_fields) =>
                TalliedUnder(JoinFields(Split(hitMatch'.seqstring),
                                        FieldNumbers(args.key_fields)))
      ]_vars

C11_Witness ==
    /\ args.key_fields = <<"2",",","1">>
    /\ hitMatch.matched
    /\ hitMatch.seqstring # Strip(hitMatch.seqstring)
    /\ <<"r","n","a"," ","c","o","x">> \in DOMAIN results

(* C12: with key fields accepted by the validation, a field number that   *)
(* is no position of a token of the description (0, or one beyond the last *)
(* token) makes key extraction fail, so that the included hit is tallied   *)
(* under its whole description and a warning is counted.                   *)
C12_OutOfRangeFieldFails ==
    [][ ( /\ EmitsHit /\ results' # results
          /\ args.key_fields # None
          /\ DigitGroups(args.key_fields)
          /\ ~FieldsInRange(seqString', args.key_fields) )
        => /\ warningCount' = warningCount + 1
           /\ TalliedUnder(seqString')
      ]_vars

(* The exclusion terms: the lines of the exclusion file without their line *)
(* terminator.                                                             *)
ExclusionTerms ==
    [i \in 1..Len(env.exclude_lines) |-> RStripChars(env.exclude_lines[i], {"\n"})]

(* The term t occurs in s, ignoring case. *)
OccursIn(t, s) == \E i \in 1..(Len(s) + 1) : AltMatchesAt(t, s, i)

(* C13: a hit is diverted to excludedResults if and only if some non-empty *)
(* line of the exclusion file occurs in its description, ignoring case; an *)
(* empty line excludes nothing.                                            *)
C13_OnlyNonEmptyTermsExclude ==
    [][ EmitsHit =>
          ( excludedResults' # excludedResults
            <=> \E i \in 1..Len(ExclusionTerms) :
                   /\ ExclusionTerms[i] # <<>>
                   /\ OccursIn(ExclusionTerms[i], seqString') )
      ]_vars

(* The step tallied its hit in excludedResults under a key that is the     *)
(* term t up to the case of its letters.                                   *)
ExcludedUnderTerm(t) ==
    \E k \in DOMAIN excludedResults' :
        /\ LowerStr(k) = LowerStr(t)
        /\ excludedResults'[k].hits =
              (IF k \in DOMAIN excludedResults THEN excludedResults[k].hits ELSE 0) + 1

(* Two different terms of the exclusion file occur in s. *)
SeveralTermsOccur(s) ==
    \E i, j \in 1..Len(ExclusionTerms) :
        /\ ExclusionTerms[i] # ExclusionTerms[j]
        /\ ExclusionTerms[i] # <<>> /\ ExclusionTerms[j] # <<>>
        /\ OccursIn(ExclusionTerms[i], s) /\ OccursIn(ExclusionTerms[j], s)

(* C14 as stated: when several terms occur in a description, the hit is    *)
(* tallied under the first of them in the order of the exclusion file,     *)
(* wherever the terms stand in the description.                            *)
C14_FirstSuppliedTermWins ==
    [][ (EmitsHit /\ excludedResults' # excludedResults /\ SeveralTermsOccur(seqString'))
        => \E a \in 1..Len(ExclusionTerms) :
              /\ OccursIn(ExclusionTerms[a], seqString')
              /\ \A b \in 1..(a - 1) : ~OccursIn(ExclusionTerms[b], seqString')
              /\ ExcludedUnderTerm(ExclusionTerms[a])
      ]_vars

(* C14 amended: an excluded hit is tallied under the term that occurs at   *)
(* the leftmost position of the description where any term occurs; the     *)
(* order of the exclusion file decides only between terms that occur at    *)
(* that same position.                                                     *)
C14_LeftmostTermWins ==
    [][ (EmitsHit /\ excludedResults' # excludedResults)
        => \E i \in 1..(Len(seqString') + 1), a \in 1..Len(ExclusionTerms) :
              /\ AltMatchesAt(ExclusionTerms[a], seqString', i)
              /\ \A j \in 1..(i - 1), b \in 1..Len(ExclusionTerms) :
                    ~AltMatchesAt(ExclusionTerms[b], seqString', j)
              /\ \A b \in 1..(a - 1) : ~AltMatchesAt(ExclusionTerms[b], seqString', i)
              /\ ExcludedUnderTerm(ExclusionTerms[a])
      ]_vars

C14_Witness ==
    /\ env.exclude_lines = << Dna \o NL, <<"m","i","t","o">> \o NL >>
    /\ seqString = DescMito
    /\ Mito \in DOMAIN excludedResults

(* The parse state that the three flags stand for. *)
ParseStateOf(header, query, hit) ==
    IF ~header THEN "AwaitingHeader"
    ELSE IF ~query THEN "AwaitingQuery"
    ELSE IF ~hit THEN "AwaitingHitSection"
    ELSE "AwaitingHitLine"

ParseState == ParseStateOf(foundHeader, newQuery, getNextHit)

(* The parse state changes in this step, and then by reading a line, along *)
(* one of the four edges and on a line of the shape of that edge.          *)
OnlyTheFourEdges ==
    ParseState' # ParseState =>
        /\ lineCount' = lineCount + 1
        /\ \/ /\ ParseState = "AwaitingHeader" /\ ParseState' = "AwaitingQuery"
              /\ MatchHeader(line')
           \/ /\ ParseState = "AwaitingQuery" /\ ParseState' = "AwaitingHitSection"
              /\ MatchQuery(line')
           \/ /\ ParseState = "AwaitingHitSection" /\ ParseState' = "AwaitingHitLine"
              /\ MatchHitSection(line')
           \/ /\ ParseState = "AwaitingHitLine" /\ ParseState' = "AwaitingQuery"
              /\ HitMatch(line')

(* A hit record comes from a step out of AwaitingHitLine only. *)
HitOnlyFromHitLine == EmitsHit => ParseState = "AwaitingHitLine"

(* The line read is a query marker or a hit-section marker, and the state  *)
(* is not the one that awaits it.                                          *)
MarkerOutOfPlace ==
    /\ lineCount' = lineCount + 1
    /\ \/ MatchQuery(line') /\ ParseState # "AwaitingQuery"
       \/ MatchHitSection(line') /\ ParseState # "AwaitingHitSection"

(* Reading the line changed nothing but the line and its number. *)
LineChangesNothing ==
    /\ UNCHANGED <<foundHeader, newQuery, getNextHit, results, excludedResults,
                   warningCount, hitsEmitted>>
    /\ pc' = "scan" /\ exitStatus' = Running /\ exception' = "none"

(* C16 as stated: the parse state changes only along the four edges, a hit *)
(* record is produced only out of AwaitingHitLine, and a query marker or   *)
(* hit-section marker read in any other state than the one awaiting it     *)
(* changes nothing.                                                        *)
C16_MarkersElsewhereChangeNothing ==
    [][ /\ OnlyTheFourEdges
        /\ HitOnlyFromHitLine
        /\ MarkerOutOfPlace => LineChangesNothing
      ]_vars

(* C16 amended: as stated, but in AwaitingHitLine a marker line that has   *)
(* the shape of a hit line is taken as the hit line; it changes nothing    *)
(* in the other states, and in AwaitingHitLine when it has not that shape. *)
C16_ParseStateEdges ==
    [][ /\ OnlyTheFourEdges
        /\ HitOnlyFromHitLine
        /\ (MarkerOutOfPlace /\ ~(ParseState = "AwaitingHitLine" /\ HitMatch(line')))
              => LineChangesNothing
        /\ (MarkerOutOfPlace /\ ParseState = "AwaitingHitLine" /\ HitMatch(line'))
              => ParseState' = "AwaitingQuery" /\ hitMatch'.matched
      ]_vars

C16_Witness ==
    /\ MatchHitSection(line)
    /\ hitMatch.matched
    /\ hitMatch.score = <<"s","i","g","n","i","f","i","c","a","n","t">>
    /\ ParseState = "AwaitingQuery"
    /\ exception = "ValueError"

(* The line ln has the shape that the parse state st awaits. *)
ExpectedShape(st, ln) ==
    CASE st = "AwaitingHeader"     -> MatchHeader(ln)
      [] st = "AwaitingQuery"      -> MatchQuery(ln)
      [] st = "AwaitingHitSection" -> MatchHitSection(ln)
      [] st = "AwaitingHitLine"    -> HitMatch(ln)

NotANumber(token) == ~IsIntStr(token) /\ ~IsFloatStr(token)

(* C18: in AwaitingHitLine a line of hit-line shape whose score or e-value *)
(* is neither an integer nor a real number ends the run with a ValueError: *)
(* the line is counted, neither mapping changes, and no report is ever     *)
(* printed.                                                                *)
C18_BadNumberIsFatal ==
    /\ [][ ( /\ lineCount' = lineCount + 1
             /\ ParseState = "AwaitingHitLine"
             /\ ~MatchBlank(line') /\ HitMatch(line')
             /\ NotANumber(hitMatch'.score) \/ NotANumber(hitMatch'.evalue) )
           => /\ exception' = "ValueError"
              /\ pc' = "done" /\ exitStatus' = 1
              /\ results' = results /\ excludedResults' = excludedResults
              /\ hitsEmitted' = hitsEmitted
         ]_vars
    /\ [](exception = "ValueError" =>
            /\ pc = "done"
            /\ lineCount >= 1
            /\ out \cap {"final report", "summary statistics", "exclusion report",
                         "warning: not a BLAST result file"} = {})

C18_Witness ==
    /\ exception = "ValueError"
    /\ hitMatch.score = <<"x","x">>
    /\ DOMAIN results # {}
    /\ lineCount = 7

(* C19: once the summary statistics are computed over the n >= 1 entries  *)
(* of results, the sum of squared deviations was divided by n - 1 when     *)
(* n > 1 and by 1 when n = 1; the divisor is never zero, and with one key  *)
(* the standard deviation is 0.                                            *)
C19_StddevDivisor ==
    "summary statistics" \in out =>
        /\ stats.n = Cardinality(DOMAIN results)
        /\ stats.n >= 1
        /\ stats.n > 1 => stats.divisor = stats.n - 1
        /\ stats.n = 1 => (stats.divisor = 1 /\ stats.varNum = 0)
        /\ stats.divisor > 0 /\ stats.varDen > 0
        /\ stats.varDen = stats.n * stats.n * stats.divisor

C19_Witness ==
    /\ "summary statistics" \in out
    /\ stats.n = 1
    /\ stats.totalHits = 2

(* C20: getNextHit implies newQuery and newQuery implies foundHeader, so   *)
(* that the flags stand for one of the four parse states; foundHeader,     *)
(* once set, stays set; and both mappings are empty while it is not set.   *)
C20_FlagsEncodeParseState ==
    /\ [](/\ getNextHit => newQuery
          /\ newQuery => foundHeader
          /\ ~foundHeader => (DOMAIN results = {} /\ DOMAIN excludedResults = {}))
    /\ [][foundHeader => foundHeader']_vars

C20_Witness ==
    /\ getNextHit /\ newQuery /\ foundHeader
    /\ DOMAIN results # {}
    /\ hitsEmitted = 1

====
